---- MODULE Spec2Model ----
(***************************************************************************)
(* Model of the flux file browser: the directory state machine             *)
(* (flux::Browser, src/src/core/browser.cpp) and the process launcher      *)
(* (fx::FileOpener, src/fx/src/file_opener.cpp).                           *)
(*                                                                         *)
(* Strings are sequences of one-character strings, so that prefix tests,   *)
(* character searches and lexicographic comparison are computed as the     *)
(* code computes them.  A path is a sequence of names (root = << >>).      *)
(***************************************************************************)
EXTENDS Integers, Sequences, FiniteSets, TLC

VARIABLES
  disk,            \* the filesystem: existing non-root path -> node
  current_path,    \* Browser::current_path_
  entries,         \* Browser::entries_
  selected_index,  \* Browser::selected_index_
  scroll_offset,   \* Browser::scroll_offset_
  show_hidden,     \* Browser::show_hidden_
  sort_mode,       \* Browser::sort_mode_
  error_message,   \* Browser::error_message_
  op,              \* the last Browser call: name, arguments, return value
  crashed,         \* the process was ended by undefined behaviour
  nmut,            \* how many file operations have changed the filesystem
  use_whitelist,   \* FileOpener::use_whitelist_
  callbacks,       \* FileOpener::suspend_callback_ / resume_callback_
  sigdisp,         \* the parent's signal dispositions
  fg_pgrp,         \* the terminal's foreground process group
  pc,              \* where the parent is inside openWith / openWithDefault
  call,            \* the arguments of the open call in progress
  child,           \* the forked child: state, argv, exit status
  wres,            \* the value the parent's waitpid loop ended with
  old_sig,         \* old_winch .. old_ttou saved by executeUnix
  trace,           \* callback and fork events of the current open call
  result,          \* the OpenResult of the last finished open call
  events,          \* what parent and child did in the current open call
  handler_rules,   \* fx::Config::handler_rules
  opened           \* the last openFileWithHandler call and the call it made

bvars == <<disk, current_path, entries, selected_index, scroll_offset,
           show_hidden, sort_mode, error_message, op, crashed, nmut>>
ovars == <<use_whitelist, callbacks, sigdisp, fg_pgrp, pc, call, child,
           wres, old_sig, trace, result, events>>
hvars == <<handler_rules, opened>>
vars == <<disk, current_path, entries, selected_index, scroll_offset,
          show_hidden, sort_mode, error_message, op, crashed, nmut,
          use_whitelist, callbacks, sigdisp, fg_pgrp, pc, call, child,
          wres, old_sig, trace, result, events, handler_rules, opened>>

----------------------------------------------------------------------------
(* Bounds *)

\* most nodes the filesystem holds (create and paste are not offered beyond)
MaxNodes == 6
\* most file operations that change the filesystem in one run
MaxMuts == 1
\* width in bits of the modelled size_t
SizeBits == 4
\* the time the clock shows whenever the Browser creates or copies a node
Now == 2
\* most handler rules a configuration holds
MaxRules == 2

SizeMod == 2 ^ SizeBits
SIZE_MAX == SizeMod - 1

----------------------------------------------------------------------------
(* Strings and characters *)

S_a == <<"a">>
S_b == <<"b">>
S_h == <<".", "h">>
DotDot == <<".", ".">>
EmptyStr == << >>
S_c == <<"c">>
S_slash == <<"a", "/", "b">>
\* the character '\0'
NUL == "NUL"
S_bslash == <<"a", "\\", "b">>
S_nul == <<"a", NUL>>

\* value of a character as std::string::operator< compares it
CharCode(c) ==
  CASE c = " " -> 32
    [] c = "\"" -> 34
    [] c = "$" -> 36
    [] c = "'" -> 39
    [] c = "." -> 46
    [] c = "/" -> 47
    [] c = ";" -> 59
    [] c = "\\" -> 92
    [] c = "a" -> 97
    [] c = "b" -> 98
    [] c = "c" -> 99
    [] c = "h" -> 104
    [] c = "m" -> 109
    [] c = "n" -> 110
    [] c = "r" -> 114
    [] c = "s" -> 115
    [] c = "v" -> 118
    [] OTHER -> 120

RECURSIVE StrLess(_, _)
\* std::string operator< : lexicographic on character values
StrLess(s, t) ==
  IF t = << >> THEN FALSE
  ELSE IF s = << >> THEN TRUE
  ELSE IF CharCode(Head(s)) < CharCode(Head(t)) THEN TRUE
  ELSE IF CharCode(Head(s)) > CharCode(Head(t)) THEN FALSE
  ELSE StrLess(Tail(s), Tail(t))

\* name.find(c) != std::string::npos
HasChar(s, c) == \E i \in 1..Len(s) : s[i] = c

Last(s) == s[Len(s)]
Front(s) == SubSeq(s, 1, Len(s) - 1)
Min(a, b) == IF a < b THEN a ELSE b
IsPrefix(p, q) == Len(p) <= Len(q) /\ SubSeq(q, 1, Len(p)) = p

----------------------------------------------------------------------------
(* The filesystem the Browser reads and changes *)

Root == << >>
NoPath == <<EmptyStr>>        \* "no such path": no real path has an empty name

ExistsP(d, p) == p = Root \/ p \in DOMAIN d
IsDirP(d, p) == p = Root \/ (p \in DOMAIN d /\ d[p].dir)
Children(d, p) == {q \in DOMAIN d : Len(q) = Len(p) + 1 /\ IsPrefix(p, q)}
ParentPath(p) == IF p = Root THEN Root ELSE Front(p)

RECURSIVE ResolveFrom(_, _, _)
\* the kernel's walk of a path, component by component, ".." included
ResolveFrom(d, acc, raw) ==
  IF raw = << >> THEN acc
  ELSE IF ~IsDirP(d, acc) THEN NoPath
  ELSE IF Head(raw) = DotDot THEN ResolveFrom(d, ParentPath(acc), Tail(raw))
  ELSE IF Head(raw) = EmptyStr THEN NoPath
  ELSE IF ExistsP(d, Append(acc, Head(raw)))
       THEN ResolveFrom(d, Append(acc, Head(raw)), Tail(raw))
       ELSE NoPath

\* fs::canonical(path) (NoPath when it throws)
Canonical(d, raw) == ResolveFrom(d, Root, raw)
\* fs::exists(path)
FsExists(d, raw) == Canonical(d, raw) # NoPath
\* fs::is_directory(path)
FsIsDirectory(d, raw) == FsExists(d, raw) /\ IsDirP(d, Canonical(d, raw))

Restrict(f, S) == [x \in S |-> f[x]]
\* fs::remove_all(p) of a non-root path: p and everything below it
RemoveTree(d, p) == Restrict(d, {q \in DOMAIN d : ~IsPrefix(p, q)})
\* fs::rename(from, to): the subtree at from now lives at to
MoveTree(d, from, to) ==
  LET moved == {q \in DOMAIN d : IsPrefix(from, q)}
      Rebase(q) == to \o SubSeq(q, Len(from) + 1, Len(q))
  IN  [q \in (DOMAIN d \ moved) \cup {Rebase(x) : x \in moved} |->
         IF q \in (DOMAIN d \ moved) THEN d[q]
         ELSE d[from \o SubSeq(q, Len(to) + 1, Len(q))]]
AddNode(d, p, node) == [q \in DOMAIN d \cup {p} |-> IF q = p THEN node ELSE d[q]]

\* a node: readable says whether a directory can be listed, stat whether
\* the node's metadata can be read
\* mtime is the second of the last write; late says that the write fell so
\* shortly before the end of that second that the time between two reads of
\* the clock can reach past it
FileNode(sz, t) ==
  [dir |-> FALSE, size |-> sz, mtime |-> t, readable |-> TRUE, stat |-> TRUE,
   late |-> FALSE]
DirNode(t, r) ==
  [dir |-> TRUE, size |-> 0, mtime |-> t, readable |-> r, stat |-> TRUE,
   late |-> FALSE]
\* a file written shortly before the end of second t
LateFile(sz, t) == [FileNode(sz, t) EXCEPT !.late = TRUE]
\* a file the directory iterator still yields while every read of its
\* metadata fails (it was deleted during the scan)
LostFile(sz, t) == [FileNode(sz, t) EXCEPT !.stat = FALSE]

----------------------------------------------------------------------------
(* flux::Browser: loading and sorting *)

\* The Browser's fields as one record b:
\*   cp current_path_, es entries_, sel selected_index_, scr scroll_offset_,
\*   sh show_hidden_, sm sort_mode_, err error_message_.
\* FileEntry::is_symlink and is_executable take no part in any decision of
\* the Browser and are left out of the entry records.

setError(b, msg) == [b EXCEPT !.err = msg]
clearError(b) == [b EXCEPT !.err = ""]

\* the synthetic ".." entry built in loadDirectory
ParentEntry(np) ==
  [name |-> DotDot, full_path |-> ParentPath(np), is_directory |-> TRUE,
   is_hidden |-> FALSE, size |-> 0, modified_time |-> 0]

\* createEntry(entry): every metadata read takes an error_code, and a
\* failed read leaves the default (false or 0) in the field
\* the time that passes between file_clock::now() and system_clock::now()
\* in one conversion: none that shows, or enough to pass the end of the
\* second for a file written late in it
ClockGaps(node) == IF node.stat /\ node.late THEN {0, 1} ELSE {0}

\* to_time_t(ftime - file_clock::now() + system_clock::now()): the file
\* time moved by the gap between the two clock reads, cut to whole seconds
to_time_t(node, gap) == node.mtime + gap

createEntry(d, q, gap) ==
  LET is_directory == d[q].stat /\ d[q].dir
  IN  [name |-> Last(q), full_path |-> q, is_directory |-> is_directory,
       is_hidden |-> (Last(q) # << >> /\ Last(q)[1] = "."),
       size |-> IF is_directory \/ ~d[q].stat THEN 0 ELSE d[q].size,
       modified_time |-> IF d[q].stat THEN to_time_t(d[q], gap) ELSE 0]

RECURSIVE ScanEntries(_, _)
\* the sets of entries one pass over the children S can build
ScanEntries(d, S) ==
  IF S = {} THEN {{}}
  ELSE LET q == CHOOSE x \in S : TRUE
       IN  {rest \cup {createEntry(d, q, gap)} :
              rest \in ScanEntries(d, S \ {q}), gap \in ClockGaps(d[q])}

\* comparators of which the one for DATE puts the oldest entry first
EntryLessOldestFirst(mode, a, b) ==
  CASE mode = "NAME" -> StrLess(a.name, b.name)
    [] mode = "SIZE" -> IF a.is_directory # b.is_directory
                        THEN a.is_directory
                        ELSE a.size > b.size
    [] mode = "DATE" -> a.modified_time < b.modified_time
    [] mode = "TYPE" -> IF a.is_directory # b.is_directory
                        THEN a.is_directory
                        ELSE StrLess(a.name, b.name)

\* the comparator sortEntries hands to std::sort for each SortMode
EntryLess(mode, a, b) ==
  CASE mode = "NAME" -> StrLess(a.name, b.name)
    [] mode = "SIZE" -> IF a.is_directory # b.is_directory
                        THEN a.is_directory
                        ELSE a.size > b.size
    [] mode = "DATE" -> a.modified_time > b.modified_time
    [] mode = "TYPE" -> IF a.is_directory # b.is_directory
                        THEN a.is_directory
                        ELSE StrLess(a.name, b.name)

\* every sequence std::sort may leave: a permutation in which no element
\* precedes one that compares less than it (the order of equivalent elements
\* is unspecified); built front to back, each place taking an element that
\* nothing left compares less than
RECURSIVE OrderedPerms(_, _)
OrderedPerms(S, mode) ==
  IF S = {} THEN {<< >>}
  ELSE UNION {{<<x>> \o t : t \in OrderedPerms(S \ {x}, mode)} :
                x \in {y \in S : \A z \in S : ~EntryLess(mode, z, y)}}

\* index of the first entry named "..", 0 when there is none (parent_it)
ParentIt(es) ==
  IF \E i \in 1..Len(es) : es[i].name = DotDot
  THEN CHOOSE i \in 1..Len(es) :
         es[i].name = DotDot /\ \A j \in 1..(i - 1) : es[j].name # DotDot
  ELSE 0

sortEntries(es, mode) ==
  IF es = << >> THEN {es}
  ELSE LET k == ParentIt(es)
           tailSet == {es[i] : i \in (k + 1)..Len(es)}
       IN  {SubSeq(es, 1, k) \o t : t \in OrderedPerms(tailSet, mode)}

\* some order in which the directory iterator yields a set of entries
RECURSIVE IterOrder(_)
IterOrder(S) ==
  IF S = {} THEN << >>
  ELSE LET x == CHOOSE y \in S : TRUE IN <<x>> \o IterOrder(S \ {x})

\* the directory iterator can be opened on np
CanIterate(d, np) == np = Root \/ d[np].readable

\* a failed loadDirectory that has already reset the cursors
loadFailedResetsCursors(b, msg) ==
  [ret |-> FALSE,
   b |-> [setError(clearError(b), msg) EXCEPT !.sel = 0, !.scr = 0]]

\* what a failed loadDirectory leaves behind: only the error message
loadFailed(b, msg) == [ret |-> FALSE, b |-> setError(clearError(b), msg)]

\* a loadDirectory that leaves scroll_offset_ where it was
loadDirectoryKeepsScroll(d, b, path) ==
  IF ~FsExists(d, path) THEN {loadFailed(b, "Path does not exist")}
  ELSE IF ~FsIsDirectory(d, path) THEN {loadFailed(b, "Not a directory")}
  ELSE LET np == Canonical(d, path) IN
    IF ~CanIterate(d, np) THEN {loadFailed(b, "Cannot read directory")}
    ELSE LET parent == IF np # Root THEN <<ParentEntry(np)>> ELSE << >>
             vis(kids) == {e \in kids :
                             ~(~b.sh /\ e.is_hidden /\ e.name # DotDot)}
             new_entries(kids) == parent \o IterOrder(vis(kids))
         IN  {[ret |-> TRUE,
               b |-> [clearError(b) EXCEPT !.es = s, !.cp = np,
                                           !.sel = 0]] :
                s \in UNION {sortEntries(new_entries(kids), b.sm) :
                               kids \in ScanEntries(d, Children(d, np))}}

\* loadDirectory(path): the set of possible results [ret, b]
loadDirectory(d, b, path) ==
  IF ~FsExists(d, path) THEN {loadFailed(b, "Path does not exist")}
  ELSE IF ~FsIsDirectory(d, path) THEN {loadFailed(b, "Not a directory")}
  ELSE LET np == Canonical(d, path) IN
    IF ~CanIterate(d, np) THEN {loadFailed(b, "Cannot read directory")}
    ELSE LET parent == IF np # Root THEN <<ParentEntry(np)>> ELSE << >>
             vis(kids) == {e \in kids :
                             ~(~b.sh /\ e.is_hidden /\ e.name # DotDot)}
             new_entries(kids) == parent \o IterOrder(vis(kids))
         IN  {[ret |-> TRUE,
               b |-> [clearError(b) EXCEPT !.es = s, !.cp = np,
                                           !.sel = 0, !.scr = 0]] :
                s \in UNION {sortEntries(new_entries(kids), b.sm) :
                               kids \in ScanEntries(d, Children(d, np))}}

refresh(d, b) == loadDirectory(d, b, b.cp)

----------------------------------------------------------------------------
(* flux::Browser: selection, sort mode, scroll *)

\* selectNext without the test against the last index
selectNextUnbounded(b) ==
  IF b.es # << >> THEN [b EXCEPT !.sel = b.sel + 1] ELSE b

selectNext(b) ==
  IF b.es # << >> /\ b.sel < Len(b.es) - 1
  THEN [b EXCEPT !.sel = b.sel + 1] ELSE b

selectPrevious(b) ==
  IF b.es # << >> /\ b.sel > 0 THEN [b EXCEPT !.sel = b.sel - 1] ELSE b

selectFirst(b) == IF b.es # << >> THEN [b EXCEPT !.sel = 0] ELSE b

selectLast(b) == IF b.es # << >> THEN [b EXCEPT !.sel = Len(b.es) - 1] ELSE b

\* selected_index_ + page_size is a size_t sum and wraps
pageDown(b, page_size) ==
  IF b.es # << >>
  THEN [b EXCEPT !.sel = Min((b.sel + page_size) % SizeMod, Len(b.es) - 1)]
  ELSE b

pageUp(b, page_size) ==
  IF b.es # << >>
  THEN [b EXCEPT !.sel = IF b.sel >= page_size THEN b.sel - page_size ELSE 0]
  ELSE b

NextSortMode(m) ==
  CASE m = "TYPE" -> "NAME"
    [] m = "NAME" -> "SIZE"
    [] m = "SIZE" -> "DATE"
    [] m = "DATE" -> "TYPE"

cycleSortMode(b) ==
  {[b EXCEPT !.sm = NextSortMode(b.sm), !.es = s] :
     s \in sortEntries(b.es, NextSortMode(b.sm))}

updateScroll(b, viewport_height) ==
  IF b.es = << >> \/ viewport_height = 0 THEN [b EXCEPT !.scr = 0]
  ELSE IF b.sel < b.scr THEN [b EXCEPT !.scr = b.sel]
  ELSE IF b.sel >= (b.scr + viewport_height) % SizeMod
       THEN [b EXCEPT !.scr = (b.sel - viewport_height + 1) % SizeMod]
  ELSE b

toggleHidden(d, b) ==
  {r.b : r \in refresh(d, [b EXCEPT !.sh = ~b.sh])}

navigateUp(d, b) ==
  IF b.cp = Root THEN {[ret |-> FALSE, b |-> b]}
  ELSE loadDirectory(d, b, ParentPath(b.cp))

navigateInto(d, b, index) ==
  IF index >= Len(b.es) THEN {[ret |-> FALSE, b |-> b]}
  ELSE IF ~b.es[index + 1].is_directory THEN {[ret |-> FALSE, b |-> b]}
  ELSE loadDirectory(d, b, b.es[index + 1].full_path)

\* getSelectedPath(): << >> stands for std::nullopt, <<p>> for the path p
getSelectedPath(b) ==
  IF b.sel >= Len(b.es) THEN << >> ELSE <<b.es[b.sel + 1].full_path>>

----------------------------------------------------------------------------
(* flux::Browser: file operations.  Each yields the set of possible         *)
(* results [ret, b, d, crash]: return value, Browser fields, filesystem.    *)

Res(r, b, d) == [ret |-> r, b |-> b, d |-> d, crash |-> FALSE]

\* name checks that let a backslash through
NameCheckNoBackslash(name) ==
  IF name = << >> THEN "empty"
  ELSE IF HasChar(name, "/") \/ HasChar(name, NUL) THEN "chars"
  ELSE ""

\* the name checks shared by createFile, createDirectory and renameEntry:
\* "" when the name passes, "empty" or "chars" when it is refused
NameCheck(name) ==
  IF name = << >> THEN "empty"
  ELSE IF HasChar(name, "/") \/ HasChar(name, "\\") \/ HasChar(name, NUL)
       THEN "chars"
  ELSE ""

\* the "auto-select" loop: the first entry with that name, if there is one
selectByName(b, name) ==
  IF \E i \in 1..Len(b.es) : b.es[i].name = name
  THEN [b EXCEPT !.sel =
          (CHOOSE i \in 1..Len(b.es) :
             b.es[i].name = name /\ \A j \in 1..(i - 1) : b.es[j].name # name)
          - 1]
  ELSE b

createFile(d, b, name, now) ==
  LET b1 == clearError(b)
      new_file_path == b.cp \o <<name>>
  IN
  IF NameCheck(name) = "empty"
    THEN {Res(FALSE, setError(b1, "File name cannot be empty"), d)}
  ELSE IF NameCheck(name) = "chars"
    THEN {Res(FALSE, setError(b1, "Invalid characters in file name"), d)}
  ELSE IF FsExists(d, new_file_path)
    THEN {Res(FALSE, setError(b1, "File already exists"), d)}
  ELSE IF ~IsDirP(d, b.cp)
    THEN {Res(FALSE, setError(b1, "Failed to create file"), d)}
  ELSE LET d1 == AddNode(d, new_file_path, FileNode(0, now))
       IN  {Res(TRUE, selectByName(r.b, name), d1) : r \in refresh(d1, b1)}

createDirectory(d, b, name, now) ==
  LET b1 == clearError(b)
      new_dir_path == b.cp \o <<name>>
  IN
  IF NameCheck(name) = "empty"
    THEN {Res(FALSE, setError(b1, "Directory name cannot be empty"), d)}
  ELSE IF NameCheck(name) = "chars"
    THEN {Res(FALSE, setError(b1, "Invalid characters in directory name"), d)}
  ELSE IF FsExists(d, new_dir_path)
    THEN {Res(FALSE, setError(b1, "Directory already exists"), d)}
  ELSE IF ~IsDirP(d, b.cp)
    THEN {Res(FALSE, setError(b1, "Failed to create directory: "), d)}
  ELSE LET d1 == AddNode(d, new_dir_path, DirNode(now, TRUE))
       IN  {Res(TRUE, selectByName(r.b, name), d1) : r \in refresh(d1, b1)}

\* fs::rename(from, to) throws
RenameThrows(d, from, to) ==
  \/ from = Root
  \/ ~ExistsP(d, from)
  \/ ~IsDirP(d, ParentPath(to))
  \/ IsPrefix(from, to)

\* the path renameEntry hands to fs::rename as the source
RenameSource(b, index) == getSelectedPath(b)

renameEntry(d, b, index, new_name) ==
  LET b1 == clearError(b)
      new_file_path == b.cp \o <<new_name>>
      failed == Res(FALSE, setError(b1, "Failed to rename file: "), d)
  IN
  IF NameCheck(new_name) = "empty"
    THEN {Res(FALSE, setError(b1, "File name cannot be empty"), d)}
  ELSE IF NameCheck(new_name) = "chars"
    THEN {Res(FALSE, setError(b1, "Invalid characters in file name"), d)}
  ELSE IF FsExists(d, new_file_path)
    THEN {Res(FALSE, setError(b1, "File already exists"), d)}
  ELSE IF RenameSource(b, index) = << >>
    \* an empty optional is dereferenced: the process dies, or the rename
    \* of whatever string was read throws
    THEN {failed, [ret |-> FALSE, b |-> b1, d |-> d, crash |-> TRUE]}
  ELSE IF RenameThrows(d, RenameSource(b, index)[1], new_file_path)
    THEN {failed}
  ELSE LET d1 == MoveTree(d, RenameSource(b, index)[1], new_file_path)
       IN  {Res(TRUE, selectByName(r.b, new_name), d1) : r \in refresh(d1, b1)}

\* removeEntry without the reload that follows the removal
removeEntryNoRefresh(d, b, index) ==
  IF index >= Len(b.es)
    THEN {Res(FALSE, setError(b, "The index is beyond the bounds"), d)}
  ELSE IF ~ExistsP(d, b.es[index + 1].full_path)
    THEN {Res(FALSE, setError(b, "The file or folder does not exist."), d)}
  ELSE {Res(TRUE, b, RemoveTree(d, b.es[index + 1].full_path))}

removeEntry(d, b, index) ==
  IF index >= Len(b.es)
    THEN {Res(FALSE, setError(b, "The index is beyond the bounds"), d)}
  ELSE LET entry == b.es[index + 1]
           failed == setError(b, "Failed to remove file or directory.")
       IN
    IF ~ExistsP(d, entry.full_path)
      THEN {Res(FALSE, setError(b, "The file or folder does not exist."), d)}
    ELSE IF entry.is_directory /\ entry.full_path = Root
      \* remove_all("/") empties the tree and then fails on "/" itself
      THEN {Res(FALSE, failed, RemoveTree(d, Root))}
    ELSE IF ~entry.is_directory /\ Children(d, entry.full_path) # {}
      \* fs::remove of a directory that is not empty throws
      THEN {Res(FALSE, failed, d)}
    ELSE LET d1 == RemoveTree(d, entry.full_path)
             clamp(bb) == IF bb.sel >= Len(bb.es) /\ bb.es # << >>
                          THEN [bb EXCEPT !.sel = Len(bb.es) - 1] ELSE bb
         IN  {Res(TRUE, clamp(r.b), d1) : r \in refresh(d1, b)}

\* fs::copy(from, to) with copy_options::none: the possible results
\* [ok, d]; ok = FALSE when it throws, d is the filesystem it leaves
fsCopy(d, from, to, now) ==
  LET fail(dd) == [ok |-> FALSE, d |-> dd] IN
  IF ~ExistsP(d, from) THEN {fail(d)}
  ELSE IF ExistsP(d, to) /\ from = to THEN {fail(d)}
  ELSE IF IsDirP(d, from) /\ ExistsP(d, to) /\ ~IsDirP(d, to) THEN {fail(d)}
  ELSE IF ~IsDirP(d, from) THEN
    \* a regular file: copy_file into the directory, or onto the path to
    LET target == IF IsDirP(d, to) THEN to \o <<Last(from)>> ELSE to IN
    IF ExistsP(d, target) \/ ~IsDirP(d, ParentPath(target)) THEN {fail(d)}
    ELSE {[ok |-> TRUE, d |-> AddNode(d, target, FileNode(d[from].size, now))]}
  ELSE
    \* a directory: its regular files are copied one by one into to,
    \* in the iterator's order; its subdirectories are passed over
    IF ~ExistsP(d, to) /\ ~IsDirP(d, ParentPath(to)) THEN {fail(d)}
    ELSE LET d0 == IF ExistsP(d, to) THEN d
                   ELSE AddNode(d, to, DirNode(now, TRUE))
             files == {q \in Children(d0, from) : ~d0[q].dir}
             clash == {q \in files : ExistsP(d0, to \o <<Last(q)>>)}
             put(S) == [q \in DOMAIN d0 \cup {to \o <<Last(x)>> : x \in S} |->
                          IF q \in DOMAIN d0 THEN d0[q]
                          ELSE FileNode(d0[from \o <<Last(q)>>].size, now)]
         IN  IF ~CanIterate(d0, from) THEN {fail(d0)}
             ELSE IF clash = {} THEN {[ok |-> TRUE, d |-> put(files)]}
             ELSE {fail(put(S)) : S \in SUBSET (files \ clash)}

\* the selection loop inside executePaste: index 0 when there is an entry
selectFirstEntry(b) == IF b.es # << >> THEN [b EXCEPT !.sel = 0] ELSE b

RECURSIVE pasteLoop(_, _, _, _)
pasteLoop(d, b, source_paths, now) ==
  IF source_paths = << >> THEN {Res(TRUE, b, d)}
  ELSE UNION {
    IF ~c.ok
    THEN {Res(FALSE,
              setError(b, "Something went wrong while pasting files: "), c.d)}
    ELSE UNION {pasteLoop(c.d, selectFirstEntry(r.b), Tail(source_paths), now) :
                  r \in refresh(c.d, b)} :
      c \in fsCopy(d, Head(source_paths), b.cp, now)}

executePaste(d, b, source_paths, is_cut, now) ==
  IF source_paths = << >>
  THEN {Res(FALSE, setError(clearError(b),
                            "At least 1 file required to paste."), d)}
  ELSE pasteLoop(d, clearError(b), source_paths, now)

----------------------------------------------------------------------------
(* The Browser as a state machine *)

B == [cp |-> current_path, es |-> entries, sel |-> selected_index,
      scr |-> scroll_offset, sh |-> show_hidden, sm |-> sort_mode,
      err |-> error_message]

SetB(b) ==
  /\ current_path' = b.cp
  /\ entries' = b.es
  /\ selected_index' = b.sel
  /\ scroll_offset' = b.scr
  /\ show_hidden' = b.sh
  /\ sort_mode' = b.sm
  /\ error_message' = b.err

\* op is a history variable: the last call, its return value and arguments.
\* A run that starts with NoHistory keeps it off.
NoHistory == [name |-> "none", ret |-> TRUE, index |-> 0, str |-> << >>]

Op(name, ret, index, str, paths) ==
  IF op = NoHistory THEN NoHistory
  ELSE [name |-> name, ret |-> ret, index |-> index, str |-> str]

\* the process's working directory when the Browser is constructed
Cwd == <<S_a>>

\* the directory tree the full Browser specification starts from
InitDisk ==
  (<<S_a>> :> DirNode(1, TRUE)) @@
  (<<S_a, S_b>> :> FileNode(1, 1)) @@
  (<<S_a, S_h>> :> FileNode(2, 2))

\* a deeper tree, for the file operations: /a/b holds two visible files
DeepDisk ==
  (<<S_a>> :> DirNode(1, TRUE)) @@
  (<<S_a, S_h>> :> FileNode(2, 2)) @@
  (<<S_a, S_b>> :> DirNode(1, TRUE)) @@
  (<<S_a, S_b, S_a>> :> FileNode(1, 1)) @@
  (<<S_a, S_b, S_b>> :> FileNode(1, 2))

\* the deeper tree with a directory that cannot be listed
NavDisk ==
  DeepDisk @@ (<<S_b>> :> DirNode(2, FALSE))

\* the deeper tree with a file in /a that is deleted while /a is scanned
\* and a file in /a/b that was written late in its second
ScanDisk ==
  DeepDisk @@ (<<S_a, S_c>> :> LostFile(1, 1))
           @@ (<<S_a, S_b, S_c>> :> LateFile(1, 1))

\* Browser::Browser(initial_path)
Construct(d, initial_path) ==
  LET b0 == [cp |-> initial_path, es |-> << >>, sel |-> 0, scr |-> 0,
             sh |-> FALSE, sm |-> "TYPE", err |-> ""]
  IN  UNION {IF r.ret THEN {r.b}
             ELSE {r2.b : r2 \in loadDirectory(d, [r.b EXCEPT !.cp = Cwd], Cwd)} :
               r \in loadDirectory(d, b0, initial_path)}

StartPaths == {<<S_a>>, <<S_a, S_a>>}
InputNames == {S_b, S_h, EmptyStr, S_slash, S_bslash, S_nul}
PageSizes == {2, SIZE_MAX}
Viewports == {0, 2, SIZE_MAX}
Times == {Now}
LoadInputs ==
  {<<S_a, S_b>>, <<S_a, DotDot>>, <<S_a, S_h>>, <<S_b>>, <<S_a, S_a>>}
PasteInputs ==
  {<< >>, <<<<S_a, S_h>>>>, <<<<S_a, S_h>>, <<S_a, S_h>>>>, <<<<S_a>>>>,
   <<<<S_a, S_a, S_a>>>>}
Indices == 0..Len(entries)
Fits(d) == Cardinality(DOMAIN d) <= MaxNodes

Sigs == {"SIGWINCH", "SIGTSTP", "SIGCONT", "SIGTTIN", "SIGTTOU"}

\* the FileOpener statics as file_opener.cpp initialises them, in a process
\* that owns the terminal and has the default signal dispositions
OpenerIdle ==
  /\ use_whitelist = FALSE
  /\ callbacks = "none"
  /\ sigdisp = [s \in Sigs |-> "SIG_DFL"]
  /\ fg_pgrp = "parent"
  /\ pc = "idle"
  /\ call = << >>
  /\ child = << >>
  /\ wres = "none"
  /\ old_sig = [s \in Sigs |-> "SIG_DFL"]
  /\ trace = << >>
  /\ result = << >>
  /\ events = << >>

\* a configuration without handler rules, and no file opened yet
NoRules ==
  /\ handler_rules = << >>
  /\ opened = << >>

\* the state right after Browser(initial_path) on the tree d
BrowserInit(d, paths, history) ==
  /\ disk = d
  /\ \E p \in paths : \E b \in Construct(d, p) :
       /\ current_path = b.cp
       /\ entries = b.es
       /\ selected_index = b.sel
       /\ scroll_offset = b.scr
       /\ show_hidden = b.sh
       /\ sort_mode = b.sm
       /\ error_message = b.err
  /\ op = IF history
          THEN [name |-> "Browser", ret |-> TRUE, index |-> 0, str |-> << >>]
          ELSE NoHistory
  /\ crashed = FALSE
  /\ nmut = 0

Init == BrowserInit(InitDisk, StartPaths, FALSE) /\ OpenerIdle /\ NoRules
MutInit == BrowserInit(DeepDisk, {<<S_a, S_b>>}, TRUE) /\ OpenerIdle /\ NoRules
ScanInit == BrowserInit(ScanDisk, {<<S_a, S_b>>}, TRUE) /\ OpenerIdle /\ NoRules
NavInit == BrowserInit(NavDisk, {<<S_a, S_b>>}, TRUE) /\ OpenerIdle /\ NoRules

\* a call that only changes Browser fields
Pure(name, b, arg) ==
  /\ SetB(b)
  /\ op' = Op(name, TRUE, arg, << >>, << >>)
  /\ UNCHANGED <<disk, crashed, nmut>>
  /\ UNCHANGED <<ovars, hvars>>

\* a call that returns bool and leaves the filesystem alone
Nav(name, r, index, paths) ==
  /\ SetB(r.b)
  /\ op' = Op(name, r.ret, index, << >>, paths)
  /\ UNCHANGED <<disk, crashed, nmut>>
  /\ UNCHANGED <<ovars, hvars>>

\* a file operation
Mut(name, r, index, str, paths) ==
  /\ Fits(r.d)
  /\ r.d # disk => nmut < MaxMuts
  /\ nmut' = IF r.d # disk THEN nmut + 1 ELSE nmut
  /\ SetB(r.b)
  /\ disk' = r.d
  /\ crashed' = r.crash
  /\ op' = Op(name, r.ret, index, str, paths)
  /\ UNCHANGED <<ovars, hvars>>

LoadDirectory ==
  /\ ~crashed
  /\ \E p \in LoadInputs : \E r \in loadDirectory(disk, B, p) :
       Nav("loadDirectory", r, 0, <<p>>)

Refresh ==
  /\ ~crashed
  /\ \E r \in refresh(disk, B) : Nav("refresh", r, 0, << >>)

NavigateUp ==
  /\ ~crashed
  /\ \E r \in navigateUp(disk, B) : Nav("navigateUp", r, 0, << >>)

NavigateInto ==
  /\ ~crashed
  /\ \E i \in Indices : \E r \in navigateInto(disk, B, i) :
       Nav("navigateInto", r, 0, << >>)

ToggleHidden ==
  /\ ~crashed
  /\ \E b \in toggleHidden(disk, B) : Pure("toggleHidden", b, 0)

CycleSortMode ==
  /\ ~crashed
  /\ \E b \in cycleSortMode(B) : Pure("cycleSortMode", b, 0)

SelectNext ==
  /\ ~crashed
  /\ Pure("selectNext", selectNext(B), 0)

SelectPrevious ==
  /\ ~crashed
  /\ Pure("selectPrevious", selectPrevious(B), 0)

SelectFirst ==
  /\ ~crashed
  /\ Pure("selectFirst", selectFirst(B), 0)

SelectLast ==
  /\ ~crashed
  /\ Pure("selectLast", selectLast(B), 0)

PageDown ==
  /\ ~crashed
  /\ \E k \in PageSizes : Pure("pageDown", pageDown(B, k), k)

PageUp ==
  /\ ~crashed
  /\ \E k \in PageSizes : Pure("pageUp", pageUp(B, k), k)

UpdateScroll ==
  /\ ~crashed
  /\ \E h \in Viewports : Pure("updateScroll", updateScroll(B, h), h)

CreateFile ==
  /\ ~crashed
  /\ \E n \in InputNames, t \in Times : \E r \in createFile(disk, B, n, t) :
       Mut("createFile", r, 0, n, << >>)

CreateDirectory ==
  /\ ~crashed
  /\ \E n \in InputNames, t \in Times :
       \E r \in createDirectory(disk, B, n, t) :
         Mut("createDirectory", r, 0, n, << >>)

RenameEntry ==
  /\ ~crashed
  /\ \E i \in Indices, n \in InputNames : \E r \in renameEntry(disk, B, i, n) :
       Mut("renameEntry", r, i, n, << >>)

RemoveEntry ==
  /\ ~crashed
  /\ \E i \in Indices : \E r \in removeEntry(disk, B, i) :
       Mut("removeEntry", r, i, << >>, << >>)

ExecutePaste ==
  /\ ~crashed
  /\ \E ps \in PasteInputs, cut \in BOOLEAN, t \in Times :
       \E r \in executePaste(disk, B, ps, cut, t) :
         Mut("executePaste", r, 0, << >>, ps)

\* every Browser operation that writes entries_, selected_index_ or the tree
\* (updateScroll, which writes scroll_offset_ only, is in NavNext)
Next ==
  \/ LoadDirectory
  \/ Refresh
  \/ NavigateUp
  \/ NavigateInto
  \/ ToggleHidden
  \/ CycleSortMode
  \/ SelectNext
  \/ SelectPrevious
  \/ SelectFirst
  \/ SelectLast
  \/ PageDown
  \/ PageUp
  \/ CreateFile
  \/ CreateDirectory
  \/ RenameEntry
  \/ RemoveEntry
  \/ ExecutePaste

Spec == Init /\ [][Next]_vars

\* the file operations, with the selection moves and reloads around them
MutNext ==
  \/ CreateFile
  \/ CreateDirectory
  \/ RenameEntry
  \/ RemoveEntry
  \/ ExecutePaste
  \/ SelectNext
  \/ SelectPrevious
  \/ ToggleHidden
  \/ NavigateUp
  \/ NavigateInto

MutSpec == MutInit /\ [][MutNext]_vars

\* the calls that take a name, with the moves that choose the directory
\* and the entry they act on
NameNext ==
  \/ CreateFile
  \/ CreateDirectory
  \/ RenameEntry
  \/ SelectNext
  \/ SelectPrevious
  \/ ToggleHidden
  \/ NavigateUp
  \/ NavigateInto

NameSpec == MutInit /\ [][NameNext]_vars

\* navigation, selection, sorting and scrolling on an unchanging tree
NavNext ==
  \/ LoadDirectory
  \/ Refresh
  \/ NavigateUp
  \/ NavigateInto
  \/ ToggleHidden
  \/ CycleSortMode
  \/ SelectNext
  \/ SelectPrevious
  \/ SelectFirst
  \/ SelectLast
  \/ PageDown
  \/ PageUp
  \/ UpdateScroll

NavSpec == NavInit /\ [][NavNext]_vars

\* the calls that scan a directory, with the moves that choose it
ScanNext ==
  \/ LoadDirectory
  \/ Refresh
  \/ NavigateUp
  \/ NavigateInto
  \/ ToggleHidden
  \/ CycleSortMode
  \/ SelectNext
  \/ SelectPrevious

ScanSpec == ScanInit /\ [][ScanNext]_vars

----------------------------------------------------------------------------
(* fx::FileOpener: pure parts *)

S_ddn == <<".", ".", "n">>
S_sp == <<"b", " ", ";">>
CmdVi == <<"v", "i">>
CmdMeta == <<"/", "b", "/", "m", " ", "'", ";", "a", " ", "b", "'", " ", "$">>
CmdBlank == <<" ">>

\* allowed_commands_: the names of the list that the commands above can hit
\* or miss (the list holds some fifty more editors, viewers and players)
allowed_commands == {<<"v", "i", "m">>, <<"v", "i">>, <<"n", "a", "n", "o">>, <<"c", "a", "t">>, <<"l", "e", "s", "s">>, <<"m", "o", "r", "e">>}

RECURSIVE parseFrom(_, _, _, _, _, _)
\* the loop of parseCommand from character i on
parseFrom(command, i, parts, current, in_quotes, quote_char) ==
  IF i > Len(command)
  THEN IF current # << >> THEN Append(parts, current) ELSE parts
  ELSE LET c == command[i] IN
    IF (c = "\"" \/ c = "'") /\ ~in_quotes
      THEN parseFrom(command, i + 1, parts, current, TRUE, c)
    ELSE IF c = quote_char /\ in_quotes
      THEN parseFrom(command, i + 1, parts, current, FALSE, NUL)
    ELSE IF c = " " /\ ~in_quotes
      THEN IF current # << >>
           THEN parseFrom(command, i + 1, Append(parts, current), << >>,
                          in_quotes, quote_char)
           ELSE parseFrom(command, i + 1, parts, current, in_quotes, quote_char)
    ELSE parseFrom(command, i + 1, parts, Append(current, c),
                   in_quotes, quote_char)

parseCommand(command) == parseFrom(command, 1, << >>, << >>, FALSE, NUL)

\* exe.find_last_of("/\\"): the 1-based position, 0 for npos
FindLastSlash(exe) ==
  IF \E i \in 1..Len(exe) : exe[i] = "/" \/ exe[i] = "\\"
  THEN CHOOSE i \in 1..Len(exe) :
         /\ exe[i] = "/" \/ exe[i] = "\\"
         /\ \A j \in (i + 1)..Len(exe) : exe[j] # "/" /\ exe[j] # "\\"
  ELSE 0

isCommandAllowed(wl, command) ==
  IF ~wl THEN TRUE
  ELSE LET parts == parseCommand(command) IN
    IF parts = << >> THEN FALSE
    ELSE LET exe == parts[1]
             base == SubSeq(exe, FindLastSlash(exe) + 1, Len(exe))
         IN  base \in allowed_commands

RECURSIVE JoinPath(_)
\* the components of a relative path written with "/" between them
JoinPath(comps) ==
  IF comps = << >> THEN << >>
  ELSE IF Len(comps) = 1 THEN comps[1]
  ELSE comps[1] \o <<"/">> \o JoinPath(Tail(comps))

RECURSIVE PathStr(_)
\* path.string() of an absolute path
PathStr(p) ==
  IF p = << >> THEN <<"/">>
  ELSE IF Len(p) = 1 THEN <<"/">> \o p[1]
  ELSE PathStr(Front(p)) \o <<"/">> \o Last(p)

RECURSIVE CommonLen(_, _)
CommonLen(p, q) ==
  IF p = << >> \/ q = << >> \/ Head(p) # Head(q) THEN 0
  ELSE 1 + CommonLen(Tail(p), Tail(q))

\* fs::relative(p, base) of two canonical paths, as its components
fsRelative(p, base) ==
  LET k == CommonLen(p, base)
      ups == [i \in 1..(Len(base) - k) |-> DotDot]
      comps == ups \o SubSeq(p, k + 1, Len(p))
  IN  IF comps = << >> THEN <<<<".">>>> ELSE comps

\* a guard that refuses only the parent directory itself
EscapesBaseExact(rel_str) == rel_str = <<".", ".">>

\* rel_str.size() >= 2 && rel_str.substr(0, 2) == ".."
EscapesBase(rel_str) ==
  Len(rel_str) >= 2 /\ SubSeq(rel_str, 1, 2) = <<".", ".">>

\* validatePath(path, base_dir): << >> for nullopt, <<canonical>> otherwise;
\* base_dir is << >> when no base is given, <<dir>> otherwise
validatePath(d, path, base_dir) ==
  IF ~FsExists(d, path) THEN << >>
  ELSE LET canonical == Canonical(d, path) IN
    IF base_dir # << >>
    THEN IF ~FsExists(d, base_dir[1]) THEN << >>
         ELSE IF EscapesBase(JoinPath(fsRelative(canonical,
                                                 Canonical(d, base_dir[1]))))
              THEN << >>
              ELSE <<canonical>>
    ELSE <<canonical>>

\* an argument vector that hands the command line to a shell
childArgsShell(parts, file_path) ==
  <<<<"s", "h">>, <<"-", "c">>>> \o parts \o <<PathStr(file_path)>>

\* the argument vector the child hands to execvp
childArgs(parts, file_path) ==
  <<parts[1]>> \o SubSeq(parts, 2, Len(parts)) \o <<PathStr(file_path)>>

----------------------------------------------------------------------------
(* fx::FileOpener as a state machine: the parent's steps through            *)
(* openWith / executeUnix / openWithDefault and the forked child's steps    *)

\* the tree the launcher works on: /a is the base directory of the calls
OpenDisk ==
  (<<S_a>> :> DirNode(1, TRUE)) @@
  (<<S_a, S_sp>> :> FileNode(1, 1)) @@
  (<<S_a, S_ddn>> :> FileNode(1, 1)) @@
  (<<S_c>> :> FileNode(2, 2))

OpenPaths == {<<S_a, S_sp>>, <<S_a, S_ddn>>, <<S_a, DotDot, S_c>>, <<S_a, S_a>>}
OpenBases == {<< >>, <<<<S_a>>>>}
OpenCommands == {CmdVi, CmdMeta, CmdBlank}

OpenResult(success, msg) == [success |-> success, error_message |-> msg]

Ignored == [s \in Sigs |-> "SIG_IGN"]

\* suspend_callback_ is called if it is set; the application's
\* suspendTerminal ignores the five signals
suspendTerminal(sd) == Ignored
InvokeSuspend ==
  /\ trace' = IF callbacks # "none" THEN Append(trace, "suspend") ELSE trace
  /\ sigdisp' = IF callbacks = "app" THEN suspendTerminal(sigdisp) ELSE sigdisp

\* the dispositions resumeTerminal leaves: it restarts the screen and
\* unblocks all signals, and installs no handler
resumeTerminal(sd) == sd
InvokeResume(sd) ==
  /\ trace' = IF callbacks # "none" THEN Append(trace, "resume") ELSE trace
  /\ events' = IF callbacks # "none" THEN Append(events, "resume") ELSE events
  /\ sigdisp' = IF callbacks = "app" THEN resumeTerminal(sd) ELSE sd

\* main configures the launcher once, before its event loop makes the first
\* open call: the three actions below are offered until then.

\* FileOpener::enableWhitelist(bool), called by main for --strict
EnableWhitelist ==
  /\ pc = "idle"
  /\ call = << >>
  /\ \E on \in BOOLEAN : use_whitelist' = on
  /\ UNCHANGED <<callbacks, sigdisp, fg_pgrp, pc, call, child, wres, old_sig,
                 trace, result>>
  /\ UNCHANGED <<bvars, hvars, events>>

\* setTerminalSuspendCallback / setTerminalResumeCallback, always called as
\* a pair: with the application's functions, or with functions that only
\* record the call
SetTerminalCallbacks ==
  /\ pc = "idle"
  /\ call = << >>
  /\ \E k \in {"app", "spy"} : callbacks' = k
  /\ UNCHANGED <<use_whitelist, sigdisp, fg_pgrp, pc, call, child, wres,
                 old_sig, trace, result>>
  /\ UNCHANGED <<bvars, hvars, events>>

setup_signal_handlers(sd) ==
  [s \in Sigs |->
     CASE s = "SIGTSTP" -> "handle_sigtstp"
       [] s = "SIGCONT" -> "handle_sigcont"
       [] s = "SIGWINCH" -> "handle_sigwinch"
       [] OTHER -> sd[s]]

SetupSignalHandlers ==
  /\ pc = "idle"
  /\ call = << >>
  /\ sigdisp' = setup_signal_handlers(sigdisp)
  /\ UNCHANGED <<use_whitelist, callbacks, fg_pgrp, pc, call, child, wres,
                 old_sig, trace, result>>
  /\ UNCHANGED <<bvars, hvars, events>>

\* an early return of openWith / openWithDefault: nothing was launched
Rejected(c, msg) ==
  /\ call' = c
  /\ result' = OpenResult(FALSE, msg)
  /\ trace' = << >>
  /\ events' = << >>
  /\ child' = << >>
  /\ wres' = "none"
  /\ UNCHANGED <<use_whitelist, callbacks, sigdisp, fg_pgrp, pc, old_sig>>

\* the entry of executeUnix, up to the fork
Launching(c) ==
  /\ call' = c
  /\ result' = << >>
  /\ trace' = IF callbacks # "none" THEN <<"suspend">> ELSE << >>
  /\ events' = IF callbacks # "none" THEN <<"suspend">> ELSE << >>
  /\ sigdisp' = IF callbacks = "app" THEN suspendTerminal(sigdisp) ELSE sigdisp
  /\ child' = << >>
  /\ wres' = "none"
  /\ pc' = "forking"
  /\ UNCHANGED <<use_whitelist, callbacks, fg_pgrp, old_sig>>

\* does openWith pass the whitelist check
CommandCheck(validate_command, wl, command) ==
  ~(validate_command /\ ~isCommandAllowed(wl, command))

OpenWith ==
  /\ pc = "idle"
  /\ \E path \in OpenPaths, command \in OpenCommands, base \in OpenBases,
        wait \in BOOLEAN, validate \in BOOLEAN, tty \in BOOLEAN :
       \* whether the terminal could be opened matters to the wait branch only
       (tty => wait) /\
       LET canonical_path == validatePath(disk, path, base)
           c == [kind |-> "openWith", file_path |-> path, command |-> command,
                 wait_for_completion |-> wait, validate_command |-> validate,
                 allowed_base_dir |-> base, tty |-> tty,
                 canonical |-> canonical_path, sig_before |-> sigdisp]
       IN  IF canonical_path = << >>
             THEN Rejected(c, "Invalid or inaccessible file path")
           ELSE IF ~CommandCheck(validate, use_whitelist, command)
             THEN Rejected(c, "Command not in allowed whitelist: ")
           ELSE IF parseCommand(command) = << >>
             THEN Rejected(c, "Empty command")
           ELSE Launching(c)
  /\ UNCHANGED <<bvars, hvars>>

CmdXdgOpen == <<"x", "d", "g", "-", "o", "p", "e", "n">>

OpenWithDefault ==
  /\ pc = "idle"
  /\ \E path \in OpenPaths :
       LET canonical_path == validatePath(disk, path, << >>)
           c == [kind |-> "openWithDefault", file_path |-> path,
                 command |-> CmdXdgOpen, wait_for_completion |-> FALSE,
                 validate_command |-> FALSE, allowed_base_dir |-> << >>,
                 tty |-> FALSE, canonical |-> canonical_path,
                 sig_before |-> sigdisp]
       IN  IF canonical_path = << >>
             THEN Rejected(c, "Invalid or inaccessible file path")
           ELSE Launching(c)
  /\ UNCHANGED <<bvars, hvars>>

\* a fork failure path that returns without the resume callback
ForkFailsNoResume ==
  /\ pc = "forking"
  /\ result' = OpenResult(FALSE, "Failed to execute command: ")
  /\ pc' = "idle"
  /\ UNCHANGED <<use_whitelist, callbacks, sigdisp, fg_pgrp, call, child, wres,
                 old_sig, trace>>
  /\ UNCHANGED <<bvars, hvars, events>>

\* fork() fails: resume, and the call reports failure
ForkFails ==
  /\ pc = "forking"
  /\ InvokeResume(sigdisp)
  /\ result' = OpenResult(FALSE, IF call.kind = "openWith"
                                 THEN "Failed to execute command: "
                                 ELSE "Failed to fork process")
  /\ pc' = "idle"
  /\ UNCHANGED <<use_whitelist, callbacks, fg_pgrp, call, child, wres, old_sig>>
  /\ UNCHANGED <<bvars, hvars>>

\* fork() succeeds: the child exists, with the parent's disposition of
\* SIGTTOU, and both go on
Fork ==
  /\ pc = "forking"
  /\ child' = [st |-> "born", argv |-> << >>, status |-> 0,
               ttou |-> sigdisp["SIGTTOU"]]
  /\ trace' = Append(trace, "fork")
  /\ pc' = IF call.wait_for_completion THEN "p_fg" ELSE "p_nowait"
  /\ UNCHANGED <<use_whitelist, callbacks, sigdisp, fg_pgrp, call, wres,
                 old_sig, result>>
  /\ events' = Append(events, "fork")
  /\ UNCHANGED <<bvars, hvars>>

\* parent, wait branch: setpgid(pid, pid); tcsetpgrp(tty_fd, pid)
ParentForeground ==
  /\ pc = "p_fg"
  /\ fg_pgrp' = IF call.tty THEN "child" ELSE fg_pgrp
  /\ pc' = "p_ignore"
  /\ UNCHANGED <<use_whitelist, callbacks, sigdisp, call, child, wres,
                 old_sig, trace, result>>
  /\ events' = IF call.tty /\ fg_pgrp # "child"
              THEN Append(events, "child_fg") ELSE events
  /\ UNCHANGED <<bvars, hvars>>

\* parent: the five sigaction calls that save the old action and ignore
ParentIgnoreSignals ==
  /\ pc = "p_ignore"
  /\ old_sig' = sigdisp
  /\ sigdisp' = Ignored
  /\ pc' = "p_wait"
  /\ UNCHANGED <<use_whitelist, callbacks, fg_pgrp, call, child, wres,
                 trace, result>>
  /\ UNCHANGED <<bvars, hvars, events>>

\* a wait that also returns for a child that has not terminated
ChildDoneOrNot == child # << >>

ChildDone == child # << >> /\ child.st \in {"exited", "signaled"}

\* a waitpid loop that ends at the first EINTR
WaitInterruptedGivesUp ==
  /\ pc = "p_wait"
  /\ ~ChildDone
  /\ wres' = "error"
  /\ pc' = "p_restore_fg"
  /\ UNCHANGED <<use_whitelist, callbacks, sigdisp, fg_pgrp, call, child,
                 old_sig, trace, result>>
  /\ UNCHANGED <<bvars, hvars, events>>

\* waitpid returns -1 with EINTR: the loop calls it again
WaitInterrupted ==
  /\ pc = "p_wait"
  /\ ~ChildDone
  /\ wres' = "eintr"
  /\ UNCHANGED <<use_whitelist, callbacks, sigdisp, fg_pgrp, pc, call, child,
                 old_sig, trace, result>>
  /\ UNCHANGED <<bvars, hvars, events>>

\* waitpid returns the pid of the terminated child
WaitReturns ==
  /\ pc = "p_wait"
  /\ ChildDone
  /\ wres' = "pid"
  /\ pc' = "p_restore_fg"
  /\ UNCHANGED <<use_whitelist, callbacks, sigdisp, fg_pgrp, call, child,
                 old_sig, trace, result>>
  /\ events' = Append(events, "wait_returned")
  /\ UNCHANGED <<bvars, hvars>>

\* waitpid returns -1 with another errno (ECHILD: the terminated child was
\* reaped elsewhere, or SIGCHLD is ignored)
WaitFails ==
  /\ pc = "p_wait"
  /\ ChildDone
  /\ wres' = "error"
  /\ pc' = "p_restore_fg"
  /\ UNCHANGED <<use_whitelist, callbacks, sigdisp, fg_pgrp, call, child,
                 old_sig, trace, result>>
  /\ events' = Append(events, "wait_returned")
  /\ UNCHANGED <<bvars, hvars>>

\* parent: tcsetpgrp(tty_fd, parent_pgid); close(tty_fd)
ParentRestoreForeground ==
  /\ pc = "p_restore_fg"
  /\ fg_pgrp' = IF call.tty THEN "parent" ELSE fg_pgrp
  /\ pc' = "p_restore_sig"
  /\ UNCHANGED <<use_whitelist, callbacks, sigdisp, call, child, wres,
                 old_sig, trace, result>>
  /\ events' = IF call.tty THEN Append(events, "parent_fg") ELSE events
  /\ UNCHANGED <<bvars, hvars>>

\* parent: the five sigaction calls that put the saved actions back
ParentRestoreSignals ==
  /\ pc = "p_restore_sig"
  /\ sigdisp' = old_sig
  /\ pc' = "p_resume"
  /\ UNCHANGED <<use_whitelist, callbacks, fg_pgrp, call, child, wres,
                 old_sig, trace, result>>
  /\ UNCHANGED <<bvars, hvars, events>>

\* a return value that takes any normal exit for success
waitResultAnyExit(w, ch) ==
  IF w = "error" THEN FALSE ELSE ch.st = "exited"

\* what executeUnix returns in the wait branch
waitResult(w, ch) ==
  IF w = "error" THEN FALSE
  ELSE IF ch.st = "exited" THEN ch.status = 0
  ELSE FALSE

\* parent, wait branch: resume, then the return value from the wait status
ParentResume ==
  /\ pc = "p_resume"
  /\ InvokeResume(sigdisp)
  /\ result' = IF waitResult(wres, child) THEN OpenResult(TRUE, "")
               ELSE OpenResult(FALSE, "Failed to execute command: ")
  /\ pc' = "idle"
  /\ old_sig' = [s \in Sigs |-> "SIG_DFL"]   \* the locals go out of scope
  /\ UNCHANGED <<use_whitelist, callbacks, fg_pgrp, call, child, wres>>
  /\ UNCHANGED <<bvars, hvars>>

\* parent, no wait: resume and report success
ParentDetached ==
  /\ pc = "p_nowait"
  /\ InvokeResume(sigdisp)
  /\ result' = OpenResult(TRUE, "")
  /\ pc' = "idle"
  /\ UNCHANGED <<use_whitelist, callbacks, fg_pgrp, call, child, wres, old_sig>>
  /\ UNCHANGED <<bvars, hvars>>

\* child, before exec: with wait and a terminal it takes its own process
\* group and the foreground; otherwise it detaches (setsid, /dev/null).
\* tcsetpgrp called from a group that is not yet the foreground group sends
\* that group SIGTTOU unless the signal is ignored: a child that inherited
\* the default disposition is stopped by it, and nothing continues it
ChildSetup ==
  /\ child # << >>
  /\ child.st = "born"
  /\ LET takes == call.wait_for_completion /\ call.tty
         stops == takes /\ fg_pgrp # "child" /\ child.ttou # "SIG_IGN"
     IN  /\ child' = [child EXCEPT !.st = IF stops THEN "stopped" ELSE "ready"]
         /\ fg_pgrp' = IF takes /\ ~stops THEN "child" ELSE fg_pgrp
         /\ events' = IF takes /\ ~stops /\ fg_pgrp # "child"
                       THEN Append(events, "child_fg") ELSE events
  /\ UNCHANGED <<use_whitelist, callbacks, sigdisp, pc, call, wres, old_sig,
                 trace, result>>
  /\ UNCHANGED <<bvars, hvars>>

\* child: execvp(args[0], args) replaces the child by the program
ChildExec ==
  /\ child # << >>
  /\ child.st = "ready"
  /\ child' = [child EXCEPT
                 !.st = "running",
                 !.argv = IF call.kind = "openWith"
                          THEN childArgs(parseCommand(call.command),
                                         call.canonical[1])
                          ELSE <<CmdXdgOpen, PathStr(call.canonical[1])>>]
  /\ UNCHANGED <<use_whitelist, callbacks, sigdisp, fg_pgrp, pc, call, wres,
                 old_sig, trace, result>>
  /\ events' = Append(events, "exec")
  /\ UNCHANGED <<bvars, hvars>>

\* child: execvp returns, the child calls _exit(127)
ChildExecFails ==
  /\ child # << >>
  /\ child.st = "ready"
  /\ child' = [child EXCEPT !.st = "exited", !.status = 127]
  /\ UNCHANGED <<use_whitelist, callbacks, sigdisp, fg_pgrp, pc, call, wres,
                 old_sig, trace, result>>
  /\ UNCHANGED <<bvars, hvars, events>>

\* the program ends: it exits with a status or is killed by a signal
ChildEnds ==
  /\ child # << >>
  /\ child.st = "running"
  /\ \/ \E st \in {0, 1} : child' = [child EXCEPT !.st = "exited", !.status = st]
     \/ child' = [child EXCEPT !.st = "signaled"]
  /\ UNCHANGED <<use_whitelist, callbacks, sigdisp, fg_pgrp, pc, call, wres,
                 old_sig, trace, result>>
  /\ UNCHANGED <<bvars, hvars, events>>

OpenNext ==
  \/ EnableWhitelist
  \/ SetTerminalCallbacks
  \/ SetupSignalHandlers
  \/ OpenWith
  \/ OpenWithDefault
  \/ ForkFails
  \/ Fork
  \/ ParentForeground
  \/ ParentIgnoreSignals
  \/ WaitInterrupted
  \/ WaitReturns
  \/ WaitFails
  \/ ParentRestoreForeground
  \/ ParentRestoreSignals
  \/ ParentResume
  \/ ParentDetached
  \/ ChildSetup
  \/ ChildExec
  \/ ChildExecFails
  \/ ChildEnds

OpenInit == BrowserInit(OpenDisk, {<<S_a>>}, TRUE) /\ OpenerIdle /\ NoRules

OpenSpec == OpenInit /\ [][OpenNext]_vars

\* the steps the parent takes by itself once an open call has started; it
\* is waitpid that blocks, so the parent is never held anywhere else
ParentRuns ==
  \/ ForkFails
  \/ Fork
  \/ ParentForeground
  \/ ParentIgnoreSignals
  \/ WaitReturns
  \/ WaitFails
  \/ ParentRestoreForeground
  \/ ParentRestoreSignals
  \/ ParentResume
  \/ ParentDetached

\* the launcher with a parent that keeps running; nothing is assumed of
\* the child, which may run for ever
OpenLiveSpec == OpenInit /\ [][OpenNext]_vars /\ WF_vars(ParentRuns)

----------------------------------------------------------------------------
(* fx: choosing the handler of a file (main.cpp) *)

S_md == <<"m", "d">>
P_md == <<"/", "a", ".", "m", "d">>
P_MD == <<"/", "a", ".", "M", "D">>
P_two == <<"/", "a", ".", "c", ".", "m", "d">>
P_README == <<"/", "R">>
P_hidden == <<"/", ".", "m", "d">>
P_dot == <<"/", "a", ".">>
P_dir == <<"/", "d", ".", "m", "d", "/", "c">>
P_ddn == <<"/", ".", ".", "c">>

CmdGlow == <<"g">>

FileHandler(extensions, pattern, mime_type, command, terminal) ==
  [extensions |-> extensions, pattern |-> pattern, mime_type |-> mime_type,
   command |-> command, terminal |-> terminal]

\* the rules a configuration file can give (config_loader.hpp stores the
\* strings of the file as they are)
RulePool ==
  { FileHandler(<<S_c, S_md>>, << >>, << >>, CmdVi, TRUE),
    FileHandler(<< >>, <<"*", ".", "m", "d">>, << >>, CmdGlow, FALSE),
    FileHandler(<< >>, << >>, S_md, CmdMeta, FALSE),
    FileHandler(<<EmptyStr>>, <<"m", "d">>, << >>, CmdVi, TRUE),
    FileHandler(<< >>, <<"*", ".">>, S_c, CmdGlow, FALSE),
    FileHandler(<< >>, <<"*">>, << >>, CmdGlow, TRUE) }

RECURSIVE RuleLists(_)
\* the lists of at most n rules
RuleLists(n) ==
  IF n = 0 THEN {<< >>}
  ELSE LET shorter == RuleLists(n - 1)
       IN  shorter \cup {Append(l, r) : l \in {x \in shorter : Len(x) = n - 1},
                                        r \in RulePool}

HandlerPaths ==
  {P_md, P_MD, P_two, P_README, P_hidden, P_dot, P_dir, P_ddn}

\* s.rfind(c): the 1-based position of the last c, 0 for npos
FindLast(s, c) ==
  IF HasChar(s, c)
  THEN CHOOSE i \in 1..Len(s) :
         s[i] = c /\ \A j \in (i + 1)..Len(s) : s[j] # c
  ELSE 0

\* std::string::substr(pos, n), pos counted from 0
Substr(s, pos, n) == SubSeq(s, pos + 1, Min(pos + n, Len(s)))

\* std::filesystem::path::filename
PathFilename(s) == SubSeq(s, FindLast(s, "/") + 1, Len(s))

\* std::filesystem::path::extension: from the last '.' of the file name,
\* empty for ".", ".." and a name whose only '.' is its first character
PathExtension(s) ==
  LET f == PathFilename(s)
      i == FindLast(f, ".")
  IN  IF f = <<".">> \/ f = DotDot \/ i <= 1 THEN << >>
      ELSE SubSeq(f, i, Len(f))

\* the comparison of the extension with a rule's string, lower-cased first
ExtEqualsFolded(a, b) ==
  LET lower(c) == CASE c = "M" -> "m" [] c = "D" -> "d" [] OTHER -> c
      fold(x) == [i \in 1..Len(x) |-> lower(x[i])]
  IN  fold(a) = fold(b)

\* std::string operator==
ExtEquals(a, b) == a = b

\* the extension findMatchingHandler compares: without its leading '.'
HandlerExtension(filePath) ==
  LET extension == PathExtension(filePath)
  IN  IF extension # << >> /\ extension[1] = "."
      THEN Tail(extension) ELSE extension

\* the body of the loop over handler_rules
HandlerMatches(extension, handler) ==
  \/ \E i \in 1..Len(handler.extensions) :
       ExtEquals(extension, handler.extensions[i])
  \/ /\ handler.pattern # << >>
     /\ Substr(handler.pattern, 0, 2) = <<"*", ".">>
     /\ ExtEquals(extension, SubSeq(handler.pattern, 3, Len(handler.pattern)))

RECURSIVE FindFrom(_, _, _)
FindFrom(extension, rules, i) ==
  IF i > Len(rules) THEN 0
  ELSE IF HandlerMatches(extension, rules[i]) THEN i
  ELSE FindFrom(extension, rules, i + 1)

\* the position of the rule returned, 0 for std::nullopt
findMatchingHandler(filePath, rules) ==
  FindFrom(HandlerExtension(filePath), rules, 1)

\* the open call openFileWithHandler makes
openFileWithHandler(filePath, rules, wl) ==
  LET handler == findMatchingHandler(filePath, rules)
  IN  IF handler # 0
      THEN [file_path |-> filePath, handler |-> handler, kind |-> "openWith",
            command |-> rules[handler].command,
            wait_for_completion |-> rules[handler].terminal,
            validate_command |-> wl]
      ELSE [file_path |-> filePath, handler |-> 0, kind |-> "openWithDefault",
            command |-> CmdXdgOpen, wait_for_completion |-> FALSE,
            validate_command |-> FALSE]

\* what the call made then does is the launcher's state machine above
OpenFileWithHandler ==
  /\ pc = "idle"
  /\ \E p \in HandlerPaths :
       opened' = openFileWithHandler(p, handler_rules, use_whitelist)
  /\ UNCHANGED <<handler_rules, bvars, ovars>>

HandlerInit ==
  /\ BrowserInit(OpenDisk, {<<S_a>>}, FALSE)
  /\ OpenerIdle
  /\ handler_rules \in RuleLists(MaxRules)
  /\ opened = << >>

HandlerNext == OpenFileWithHandler

HandlerSpec == HandlerInit /\ [][HandlerNext]_vars

----------------------------------------------------------------------------
(* Properties *)

Mutators ==
  {"createFile", "createDirectory", "renameEntry", "removeEntry",
   "executePaste"}

\* C1: whenever entries is non-empty, selected_index is a valid index of it,
\* after any sequence of Browser operations, successful or not.
C1_SelectionInBounds ==
  entries # << >> => selected_index < Len(entries)

\* a file operation has changed the tree and the selection sits on the
\* last of several entries
C1_Witness ==
  nmut > 0 /\ Len(entries) >= 2 /\ selected_index = Len(entries) - 1

\* C2: a loadDirectory call that returns false leaves current_path, entries,
\* selected_index and scroll_offset as they were and sets error_message.
C2_FailedLoadKeepsState ==
  [][(op'.name = "loadDirectory" /\ ~op'.ret) =>
       /\ UNCHANGED <<current_path, entries, selected_index, scroll_offset>>
       /\ error_message' # ""]_vars

\* a load has failed on a directory that cannot be listed, with the
\* selection and the scroll offset away from 0
C2_Witness ==
  /\ op.name = "loadDirectory"
  /\ ~op.ret
  /\ error_message = "Cannot read directory"
  /\ selected_index > 0
  /\ scroll_offset > 0

\* the names entries shows, the synthetic ".." left out
ShownNames == {entries[i].name : i \in 1..Len(entries)} \ {DotDot}

\* the names of the children of current_path that pass the hidden filter
VisibleChildNames ==
  {Last(q) : q \in {c \in Children(disk, current_path) :
                      show_hidden \/ Last(c)[1] # "."}}

\* C3: after a file operation returns true, current_path is an existing
\* directory and entries shows exactly its children that pass the hidden
\* filter.
C3_EntriesMatchDisk ==
  (op.name \in Mutators /\ op.ret) =>
    /\ IsDirP(disk, current_path)
    /\ ShownNames = VisibleChildNames

\* C10: a renameEntry(index, new_name) that returns true for a valid index
\* has renamed the object at entries[index] to new_name inside current_path
\* and nothing else.
C10_RenamesIndexedEntry ==
  [][(op'.name = "renameEntry" /\ op'.ret /\ op'.index < Len(entries)) =>
       disk' = MoveTree(disk, entries[op'.index + 1].full_path,
                        current_path \o <<op'.str>>)]_vars

\* C11: after createFile(name), createDirectory(name) or
\* renameEntry(index, name) returns true, the selected entry is the one
\* named name, whatever show_hidden is.
C11_NewEntrySelected ==
  (op.name \in {"createFile", "createDirectory", "renameEntry"} /\ op.ret) =>
    /\ selected_index < Len(entries)
    /\ entries[selected_index + 1].name = op.str

\* C12: after removeEntry(index) returns true, selected_index has the value
\* it had before the call, or entries.length - 1 when that value is no
\* longer a valid index.
C12_RemoveKeepsSelection ==
  [][(op'.name = "removeEntry" /\ op'.ret) =>
       selected_index' = IF selected_index >= Len(entries')
                         THEN Len(entries') - 1
                         ELSE selected_index]_vars

\* the name is empty, holds '/', '\' or NUL, or is that of a child of
\* current_path that exists in tree d
RefusedName(d, name) ==
  \/ Len(name) = 0
  \/ \E i \in 1..Len(name) : name[i] \in {"/", "\\", NUL}
  \/ (current_path \o <<name>>) \in DOMAIN d

\* C13: createFile, createDirectory and renameEntry given a name that is
\* empty, holds '/', '\' or NUL, or names an existing child of current_path
\* return false, leave the tree alone and leave current_path, entries and
\* selected_index unchanged.
C13_BadNameRefused ==
  [][(/\ op'.name \in {"createFile", "createDirectory", "renameEntry"}
      /\ RefusedName(disk, op'.str)) =>
       /\ ~op'.ret
       /\ disk' = disk
       /\ UNCHANGED <<current_path, entries, selected_index>>]_vars

\* renameEntry has refused a name with a backslash while the selection was
\* away from 0 and the tree had already been changed once
C13_Witness ==
  /\ op.name = "renameEntry"
  /\ ~op.ret
  /\ op.str = S_bslash
  /\ selected_index > 0
  /\ nmut > 0
  /\ error_message = "Invalid characters in file name"

\* what tree d holds below current_path
ContentsOfCurrent(d) ==
  [q \in {x \in DOMAIN d : IsPrefix(current_path, x) /\ x # current_path}
     |-> d[q]]

\* C14: an executePaste that returns false has failed as a whole: what the
\* tree holds below current_path, entries and selected_index are as before
\* the call, also when an earlier path of the batch had been copied.
C14_FailedPasteIsAtomic ==
  [][(op'.name = "executePaste" /\ ~op'.ret) =>
       /\ ContentsOfCurrent(disk') = ContentsOfCurrent(disk)
       /\ UNCHANGED <<entries, selected_index>>]_vars

\* C15: right after createFile, createDirectory, renameEntry, removeEntry
\* or executePaste has returned, hasError() is true exactly when the call
\* returned false.
C15_ErrorIffFailed ==
  (op.name \in Mutators /\ ~crashed) => ((error_message # "") <=> ~op.ret)

\* entry x may stand before entry y under the sort mode
MayPrecede(mode, x, y) ==
  LET dirsFirst == x.is_directory /\ ~y.is_directory
      sameKind == x.is_directory = y.is_directory
      nameUp == x.name = y.name \/ StrLess(x.name, y.name)
  IN  CASE mode = "NAME" -> nameUp
        [] mode = "DATE" -> x.modified_time >= y.modified_time
        [] mode = "SIZE" -> dirsFirst \/ (sameKind /\ x.size >= y.size)
        [] mode = "TYPE" -> dirsFirst \/ (sameKind /\ nameUp)

\* C16: in every reachable state at most one entry is named "..", it is at
\* index 0 when there is one, and the entries after it are in the order of
\* the current sort mode: NAME ascending by name, DATE descending by
\* modified_time, SIZE directories first and then descending by size, TYPE
\* directories first and then ascending by name.
C16_EntriesSorted ==
  /\ Cardinality({i \in 1..Len(entries) : entries[i].name = DotDot}) <= 1
  /\ \A i \in 1..Len(entries) : entries[i].name = DotDot => i = 1
  /\ \A i, j \in 1..Len(entries) :
       (i < j /\ entries[i].name # DotDot /\ entries[j].name # DotDot) =>
         MayPrecede(sort_mode, entries[i], entries[j])

\* after a change of the tree the listing is in SIZE order with a directory
\* and two files of different sizes in it
C16_Witness ==
  /\ nmut > 0
  /\ sort_mode = "SIZE"
  /\ \E i, j, k \in 1..Len(entries) :
       /\ entries[i].is_directory
       /\ entries[i].name # DotDot
       /\ ~entries[j].is_directory
       /\ ~entries[k].is_directory
       /\ entries[j].size # entries[k].size

\* C17: after every loadDirectory that returns true, also one run through
\* refresh, navigateUp, navigateInto or toggleHidden, selected_index and
\* scroll_offset are 0.
C17_LoadResetsCursors ==
  [][(\/ /\ op'.name \in {"loadDirectory", "refresh", "navigateUp",
                          "navigateInto"}
         /\ op'.ret
      \/ /\ op'.name = "toggleHidden"
         /\ error_message' = "") =>
       (selected_index' = 0 /\ scroll_offset' = 0)]_vars

\* navigateInto has loaded /a, and both cursors are 0
C17_Witness ==
  /\ op.name = "navigateInto"
  /\ op.ret
  /\ current_path = <<S_a>>
  /\ Len(entries) >= 2
  /\ selected_index = 0
  /\ scroll_offset = 0

\* the Browser fields that k calls of cycleSortMode in a row may leave
RECURSIVE CycleTimes(_, _)
CycleTimes(b, k) ==
  IF k = 0 THEN {b}
  ELSE UNION {CycleTimes(r, k - 1) : r \in cycleSortMode(b)}

\* C18: from every reachable state, four calls of cycleSortMode in a row
\* bring back the sort mode and the order of entries, also when entries tie
\* under a sort key.
C18_FourCyclesRestore ==
  \A r \in CycleTimes(B, 4) : r.sm = sort_mode /\ r.es = entries

\* C19: after updateScroll(viewport_height) with entries non-empty,
\* scroll_offset <= selected_index < scroll_offset + viewport_height, for
\* every viewport_height; and a selection that was inside that window before
\* the call leaves scroll_offset unchanged.
C19_ScrollWindow ==
  [][(op'.name = "updateScroll" /\ entries # << >>) =>
       /\ scroll_offset' <= selected_index
       /\ selected_index < scroll_offset' + op'.index
       /\ (/\ scroll_offset <= selected_index
           /\ selected_index < scroll_offset + op'.index) =>
            scroll_offset' = scroll_offset]_vars

\* the Browser fields after k calls of selectNext, of selectPrevious
RECURSIVE NextTimes(_, _)
NextTimes(b, k) == IF k = 0 THEN b ELSE NextTimes(selectNext(b), k - 1)

RECURSIVE PreviousTimes(_, _)
PreviousTimes(b, k) ==
  IF k = 0 THEN b ELSE PreviousTimes(selectPrevious(b), k - 1)

Max(a, b) == IF a > b THEN a ELSE b

\* from Browser fields b, n or n + 1 calls of selectNext end on the last
\* of the n entries, and as many of selectPrevious on the first
RepeatedMovesClamp(b) ==
  \A k \in {Len(b.es), Len(b.es) + 1} :
    /\ NextTimes(b, k).sel = Len(b.es) - 1
    /\ PreviousTimes(b, k).sel = 0

\* what one selection move must leave in selected_index
MoveTarget(name, k) ==
  CASE name = "selectNext" -> Min(selected_index + 1, Len(entries) - 1)
    [] name = "selectPrevious" -> Max(selected_index - 1, 0)
    [] name = "selectFirst" -> 0
    [] name = "selectLast" -> Len(entries) - 1
    [] name = "pageDown" -> Min(selected_index + k, Len(entries) - 1)
    [] name = "pageUp" -> Max(selected_index - k, 0)

\* C20: with entries non-empty, selection moves never wrap: selectNext and
\* selectPrevious called entries.length times or more end on the last and
\* the first entry, selectFirst and selectLast go there, pageDown(k) and
\* pageUp(k) move by k and stop at the ends for every k; and none of them
\* changes entries, current_path or scroll_offset.
C20_MovesClamp ==
  [][(/\ op'.name \in {"selectNext", "selectPrevious", "selectFirst",
                       "selectLast", "pageDown", "pageUp"}
      /\ entries # << >>) =>
       /\ selected_index' = MoveTarget(op'.name, op'.index)
       /\ UNCHANGED <<entries, current_path, scroll_offset>>
       /\ RepeatedMovesClamp(B)
       /\ RepeatedMovesClamp([B EXCEPT !.sel = selected_index'])]_vars

\* the children of p whose metadata cannot be read
LostChildren(d, p) == {q \in Children(d, p) : ~d[q].stat}

\* C23: a loadDirectory that meets a child whose metadata cannot be read
\* still returns true, and that child is not in entries afterwards.
C23_UnreadableChildSkipped ==
  [][(/\ op'.name \in {"loadDirectory", "refresh", "navigateUp",
                       "navigateInto"}
      /\ LostChildren(disk, current_path') # {}
      /\ op'.ret \/ (op'.name = "refresh" /\ CanIterate(disk, current_path))) =>
       /\ op'.ret
       /\ \A i \in 1..Len(entries') :
            entries'[i].full_path \notin LostChildren(disk, current_path')]_vars

\* the names beginning with '.' that es lists, ".." aside
HiddenListed(es) ==
  {es[i].name : i \in {j \in 1..Len(es) :
     es[j].name # DotDot /\ es[j].name # << >> /\ es[j].name[1] = "."}}

\* the names beginning with '.' among the children of p
HiddenChildNames(d, p) ==
  {Last(q) : q \in {c \in Children(d, p) : Last(c) # << >> /\ Last(c)[1] = "."}}

\* C24: toggleHidden negates show_hidden and leaves entries listing the
\* hidden children of current_path exactly when show_hidden is true; while
\* show_hidden is false, entries never holds a hidden child.
C24_HiddenListedIffShown ==
  [][/\ op'.name = "toggleHidden" =>
          /\ show_hidden' = ~show_hidden
          /\ HiddenListed(entries') =
               IF show_hidden' THEN HiddenChildNames(disk', current_path')
               ELSE {}
     /\ ~show_hidden => HiddenListed(entries) = {}
     /\ ~show_hidden' => HiddenListed(entries') = {}]_vars

\* a listing as the set of (name, size, type) of its entries
Listing(es) ==
  {[name |-> es[i].name, size |-> es[i].size,
    is_directory |-> es[i].is_directory] : i \in 1..Len(es)}

\* the (name, size, type) of the children of p in the tree d
DiskListing(d, p) ==
  {[name |-> Last(q), size |-> IF d[q].dir THEN 0 ELSE d[q].size,
    is_directory |-> d[q].dir] : q \in Children(d, p)}

\* the results of createFile(name) returning true followed by removeEntry
\* of the index at which name is listed
CreateThenRemove(d, b, name) ==
  UNION {UNION {removeEntry(r1.d, r1.b, i) :
                  i \in {j \in 0..(Len(r1.b.es) - 1) :
                           r1.b.es[j + 1].name = name}} :
           r1 \in {r \in createFile(d, b, name, Now) : r.ret}}

\* C25: createFile(name) returning true, then removeEntry of the entry
\* named name, leaves the listing (name, size, type) it was before.
C25_CreateRemoveRoundTrip ==
  \A name \in InputNames : \A r2 \in CreateThenRemove(disk, B, name) :
    /\ Listing(r2.b.es) = Listing(entries)
    /\ DiskListing(r2.d, current_path) = DiskListing(disk, current_path)

\* in /a/b with hidden files shown, ".h" can be created and removed again
C25_Witness ==
  /\ current_path = <<S_a, S_b>>
  /\ show_hidden
  /\ Len(entries) = 3
  /\ CreateThenRemove(disk, B, S_h) # {}

\* x and y hold the same entries with the same field values, in the same
\* order wherever the comparator of the mode puts one entry before another
\* (std::sort gives one order to one input, so entries that tie keep
\* whatever order that input gave them)
SameEntries(mode, x, y) ==
  /\ Len(x) = Len(y)
  /\ {x[i] : i \in 1..Len(x)} = {y[i] : i \in 1..Len(y)}
  /\ \A i, j \in 1..Len(x) :
       (x[i].name # DotDot /\ x[j].name # DotDot
        /\ EntryLess(mode, x[i], x[j])) =>
         \A k, l \in 1..Len(y) : (y[k] = x[i] /\ y[l] = x[j]) => k < l

\* C26: refresh() called twice in a row on an unchanged filesystem yields
\* the same entries both times: same entries, same order, same fields.
C26_RefreshIdempotent ==
  \A r1 \in refresh(disk, B) : r1.ret =>
    \A r2 \in refresh(disk, r1.b) :
      /\ r2.ret
      /\ SameEntries(sort_mode, r1.b.es, r2.b.es)

\* C29: removeEntry(index) deletes nothing but a child of current_path
\* (with what lies below it), for every index including that of "..";
\* current_path and its parent directory exist after the call.
C29_RemoveStaysInside ==
  [][op'.name = "removeEntry" =>
       /\ \A q \in DOMAIN disk \ DOMAIN disk' :
            IsPrefix(current_path, q) /\ q # current_path
       /\ ExistsP(disk', current_path)
       /\ ExistsP(disk', ParentPath(current_path))]_vars

----------------------------------------------------------------------------
(* Properties of the launcher *)

\* an open call has returned
Returned == pc = "idle" /\ call # << >>

\* the canonical form of the call's path lies outside its base directory
OutsideBase ==
  /\ call.allowed_base_dir # << >>
  /\ FsExists(disk, call.allowed_base_dir[1])
  /\ FsExists(disk, call.file_path)
  /\ ~IsPrefix(Canonical(disk, call.allowed_base_dir[1]),
               Canonical(disk, call.file_path))

\* C4: openWith on a path whose canonical form lies outside the base
\* directory fails without forking and without calling either callback.
C4_EscapeRejected ==
  (call # << >> /\ call.kind = "openWith" /\ OutsideBase) =>
    /\ pc = "idle"
    /\ result.success = FALSE
    /\ child = << >>
    /\ trace = << >>

\* the call on /a/../c with base /a has been refused while callbacks that
\* record their calls were registered
C4_Witness ==
  /\ Returned
  /\ callbacks = "spy"
  /\ call.kind = "openWith"
  /\ call.file_path = <<S_a, DotDot, S_c>>
  /\ call.allowed_base_dir = <<<<S_a>>>>
  /\ result.success = FALSE

\* the tokens each command consists of, written out by hand
ExpectedTokens(command) ==
  CASE command = CmdVi -> <<<<"v", "i">>>>
    [] command = CmdMeta ->
         <<<<"/", "b", "/", "m">>, <<";", "a", " ", "b">>, <<"$">>>>
    [] OTHER -> << >>

\* the canonical path of each file, written out by hand
ExpectedPathArg(file_path) ==
  CASE file_path = <<S_a, S_sp>> -> <<"/", "a", "/", "b", " ", ";">>
    [] file_path = <<S_a, S_ddn>> -> <<"/", "a", "/", ".", ".", "n">>
    [] file_path = <<S_a, DotDot, S_c>> -> <<"/", "c">>
    [] OTHER -> << >>

\* C5: the program a launch by openWith executes is the first token of the
\* command, and its argv is the tokens followed by the canonical file path
\* as one last argument; metacharacters and spaces arrive as literal text
\* and no shell is put in front.
C5_ArgvIsLiteral ==
  (child # << >> /\ child.argv # << >> /\ call.kind = "openWith") =>
    /\ child.argv = ExpectedTokens(call.command)
                      \o <<ExpectedPathArg(call.file_path)>>
    /\ child.argv[1] = parseCommand(call.command)[1]
    /\ Len(child.argv) = Len(parseCommand(call.command)) + 1

\* the command with quotes, ";" and "$" runs on the file whose name holds a
\* space and a ";"
C5_Witness ==
  /\ child # << >>
  /\ child.st = "running"
  /\ call.kind = "openWith"
  /\ call.command = CmdMeta
  /\ call.file_path = <<S_a, S_sp>>

\* the executable of the call's command, directory part stripped
CallBasename ==
  LET exe == parseCommand(call.command)[1]
  IN  SubSeq(exe, FindLastSlash(exe) + 1, Len(exe))

\* C6: openWith with validate_command set and a command whose basename is
\* not in the allow-list fails with the command-not-allowed error and forks
\* nothing, whatever the rest of the program's state.
C6_UnlistedCommandRejected ==
  (/\ call # << >>
   /\ call.kind = "openWith"
   /\ call.validate_command
   /\ call.canonical # << >>
   /\ parseCommand(call.command) # << >>
   /\ CallBasename \notin allowed_commands) =>
    /\ pc = "idle"
    /\ result.success = FALSE
    /\ result.error_message = "Command not in allowed whitelist: "
    /\ child = << >>

Count(seq, x) == Cardinality({i \in 1..Len(seq) : seq[i] = x})

\* C7: within one open call the suspend callback runs at most once, each
\* resume comes after a suspend it answers, and when the call returns every
\* suspend has been answered by exactly one resume.
C7_SuspendResumePaired ==
  /\ Count(trace, "resume") <= Count(trace, "suspend")
  /\ Count(trace, "suspend") <= 1
  /\ \A i \in 1..Len(trace) :
       trace[i] = "resume" => \E j \in 1..(i - 1) : trace[j] = "suspend"
  /\ pc = "idle" => Count(trace, "resume") = Count(trace, "suspend")

\* a call has returned through the waitpid error path with both callbacks
\* invoked around the fork
C7_Witness ==
  /\ Returned
  /\ wres = "error"
  /\ trace = <<"suspend", "fork", "resume">>

\* an openWith call that got as far as executeUnix has returned
Executed ==
  /\ Returned
  /\ call.kind = "openWith"
  /\ result # << >>
  /\ result.success \/ result.error_message = "Failed to execute command: "

ChildExitedZero == child # << >> /\ child.st = "exited" /\ child.status = 0

\* C8 as claimed: with wait_for_completion the call succeeds exactly when
\* the child exited normally with status 0; without it, whenever the fork
\* succeeded.
C8_SuccessIffExitZero ==
  Executed =>
    IF call.wait_for_completion
    THEN result.success <=> ChildExitedZero
    ELSE result.success <=> child # << >>

\* C8 amended: with wait_for_completion the call succeeds exactly when
\* waitpid returned the child's status and the child exited normally with
\* status 0; without it, whenever the fork succeeded.
C8_SuccessIffWaitedExitZero ==
  Executed =>
    IF call.wait_for_completion
    THEN result.success <=> (wres = "pid" /\ ChildExitedZero)
    ELSE result.success <=> child # << >>

\* a waiting call has returned failure although the child exited with 0
C8_Witness ==
  /\ Executed
  /\ call.wait_for_completion
  /\ ChildExitedZero
  /\ wres = "error"
  /\ ~result.success

\* C9: after a waiting openWith returns, the parent's group is the
\* terminal's foreground group and the dispositions of the five signals are
\* those in effect just before the call.
C9_TerminalAndSignalsRestored ==
  (Executed /\ call.wait_for_completion) =>
    /\ fg_pgrp = "parent"
    /\ sigdisp = call.sig_before

\* the canonical form of the call's existing path lies inside its base
InsideBase ==
  /\ call.allowed_base_dir # << >>
  /\ FsExists(disk, call.allowed_base_dir[1])
  /\ FsExists(disk, call.file_path)
  /\ IsPrefix(Canonical(disk, call.allowed_base_dir[1]),
              Canonical(disk, call.file_path))

\* C30: openWith with a base directory lets every existing file inside the
\* base pass the path check, whatever its name, names that begin with two
\* dots included.
C30_InsideBasePasses ==
  (call # << >> /\ call.kind = "openWith" /\ InsideBase) =>
    /\ call.canonical = <<Canonical(disk, call.file_path)>>
    /\ (pc = "idle" /\ result # << >>) =>
         result.error_message # "Invalid or inaccessible file path"

\* the place of each event in the order of a waited launch on a terminal
EventRank(e) ==
  CASE e = "suspend" -> 1
    [] e = "fork" -> 2
    [] e = "child_fg" -> 3
    [] e = "exec" -> 4
    [] e = "wait_returned" -> 5
    [] e = "parent_fg" -> 6
    [] e = "resume" -> 7

Happened(e) == \E i \in 1..Len(events) : events[i] = e

\* C27: in a waited openWith on a terminal the events come in the order
\* suspend, fork, child's group to the foreground, exec, waitpid returns,
\* parent's group to the foreground, resume, however parent and child are
\* interleaved; resume is never invoked while the child runs or while the
\* child's group holds the foreground.
C27_EventsInOrder ==
  (call # << >> /\ call.wait_for_completion /\ call.tty) =>
    /\ \A i, j \in 1..Len(events) :
         i < j => EventRank(events[i]) < EventRank(events[j])
    /\ Happened("exec") => Happened("child_fg")
    /\ Happened("child_fg") => Happened("fork")
    /\ Happened("wait_returned") => Happened("child_fg")
    /\ Happened("parent_fg") => Happened("wait_returned")
    /\ (Happened("resume") /\ Happened("fork")) =>
         /\ Happened("parent_fg")
         /\ ChildDone
         /\ fg_pgrp = "parent"

\* a waited launch on a terminal went through all seven events
C27_Witness ==
  /\ call # << >>
  /\ call.wait_for_completion /\ call.tty
  /\ events = <<"suspend", "fork", "child_fg", "exec", "wait_returned",
                "parent_fg", "resume">>

\* the parent is in a waited open call whose child was forked
Waiting ==
  /\ pc # "idle"
  /\ call # << >>
  /\ call.wait_for_completion
  /\ child # << >>

\* the open call has returned, after the resume callback if one is set
ReturnedResumed ==
  /\ pc = "idle"
  /\ result # << >>
  /\ callbacks # "none" => Happened("resume")

\* C28: a waited openWith returns exactly when the child terminates: once
\* the child has ended the call returns and the resume callback is invoked
\* (EINTR only repeats the wait), and as long as the child has not ended
\* the call does not return.
C28_ReturnsIffChildEnds ==
  /\ [][(Waiting /\ pc' = "idle") => ChildDone]_vars
  /\ (Waiting /\ ChildDone) ~> ReturnedResumed

\* a waited call has returned after its child ended, the resume callback
\* invoked
C28_Witness ==
  /\ ReturnedResumed
  /\ call.wait_for_completion
  /\ ChildDone
  /\ Happened("resume")
  /\ Happened("wait_returned")

----------------------------------------------------------------------------
(* Properties of the handler choice *)

\* a rule qualifies for an extension when the extension is one of the rule's
\* extensions, or its pattern is "*." followed by the extension
Qualifies(extension, rule) ==
  \/ \E i \in 1..Len(rule.extensions) : rule.extensions[i] = extension
  \/ rule.pattern = <<"*", ".">> \o extension

QualifyingRules(filePath) ==
  {i \in 1..Len(handler_rules) :
     Qualifies(HandlerExtension(filePath), handler_rules[i])}

\* C21: findMatchingHandler returns the first rule, in declared order, whose
\* extensions or whose pattern "*.ext" hold the path's extension exactly
\* (case-sensitively), and nullopt when no rule does; mime_type plays no part.
C21_FirstQualifyingRule ==
  opened # << >> =>
    LET Q == QualifyingRules(opened.file_path)
    IN  /\ Q = {} => opened.handler = 0
        /\ Q # {} => /\ opened.handler \in Q
                     /\ \A i \in Q : opened.handler <= i
        /\ (opened.file_path = P_MD /\ opened.handler # 0) =>
             handler_rules[opened.handler].pattern # <<"*", ".", "m", "d">>

\* "a.MD" was looked up under a rule with pattern "*.md" whose mime_type-only
\* predecessor names the extension of no file, and nothing was found
C21_Witness ==
  /\ opened # << >>
  /\ opened.file_path = P_MD
  /\ Len(handler_rules) = 2
  /\ handler_rules[1].mime_type = S_md
  /\ handler_rules[2].pattern = <<"*", ".", "m", "d">>
  /\ opened.handler = 0

\* C22: for a path whose file name has no extension, findMatchingHandler
\* returns nullopt whatever the rules are, and openWithDefault is called.
C22_NoExtensionNoHandler ==
  (opened # << >> /\ ~HasChar(PathFilename(opened.file_path), ".")) =>
    /\ opened.handler = 0
    /\ opened.kind = "openWithDefault"

====
